---- MODULE Spec2Model ----
(***************************************************************************)
(* A model of the IdleRPG game core (lib/idlerpg.js): the state tree, the  *)
(* profile registry (_getProfile, _registerPlayer), the transfer handler   *)
(* and the tick (tick, _getPlayers, _getActivePlayers, _computeRound,      *)
(* reward).                                                                *)
(*                                                                         *)
(* Representation.  A JavaScript string is a sequence of tokens, where the *)
(* characters the code splits or escapes on ("/", "~", digits, "-") are    *)
(* tokens of their own and every other run of characters is one token.     *)
(* A JavaScript number-or-missing value is a record [k, n, d] with         *)
(* k \in {"num", "nan", "undef", "null"}; a number is n / 2^d in lowest    *)
(* terms, so that halving is exact.  An object field that is absent holds  *)
(* the undefined value of its type.                                        *)
(***************************************************************************)
EXTENDS Integers, Sequences, FiniteSets, TLC

(***************************************************************************)
(* Program constants and bounds                                            *)
(***************************************************************************)
PER_TICK_CAPITAL == 10
PER_TICK_EXPERIENCE == 10

\* the alias of the agent (config.alias)
ConfigAlias == "@idlerpg:verse.im"

\* bounds of the model: commands handled in one run, gold looted in an
\* encounter, messages observed in one run
MaxCommands == 1
Loot == 5
MaxMessages == 2

\* bound of the model: handlers begun in one run of the interleaved machine
MaxTasks == 2

(***************************************************************************)
(* JavaScript values                                                       *)
(***************************************************************************)
Num(n) == [k |-> "num", n |-> n, d |-> 0]
NaN == [k |-> "nan", n |-> 0, d |-> 0]
Undefined == [k |-> "undef", n |-> 0, d |-> 0]
Null == [k |-> "null", n |-> 0, d |-> 0]

RECURSIVE Dyadic(_, _)
\* the number n / 2^d, in lowest terms
Dyadic(n, d) ==
  IF d > 0 /\ n % 2 = 0 THEN Dyadic(n \div 2, d - 1)
  ELSE [k |-> "num", n |-> n, d |-> d]

\* the numerator of a number over the denominator 2^d
Scaled(v, d) == v.n * 2^(d - v.d)

MaxOf(x, y) == IF x >= y THEN x ELSE y

\* !v for a number-or-missing value
Falsy(v) == v.k # "num" \/ v.n = 0

\* v || d
OrDefault(v, d) == IF Falsy(v) THEN d ELSE v

\* Number(v), the conversion the arithmetic operators apply
ToNumber(v) ==
  CASE v.k = "num" -> v
    [] v.k = "null" -> Num(0)
    [] OTHER -> NaN

\* a + b and a - b on numbers
JsAdd(a, b) ==
  IF ToNumber(a).k = "nan" \/ ToNumber(b).k = "nan" THEN NaN
  ELSE Dyadic(Scaled(ToNumber(a), MaxOf(a.d, b.d)) + Scaled(ToNumber(b), MaxOf(a.d, b.d)),
              MaxOf(a.d, b.d))

JsSub(a, b) ==
  IF ToNumber(a).k = "nan" \/ ToNumber(b).k = "nan" THEN NaN
  ELSE Dyadic(Scaled(ToNumber(a), MaxOf(a.d, b.d)) - Scaled(ToNumber(b), MaxOf(a.d, b.d)),
              MaxOf(a.d, b.d))

\* a * 0.5
JsHalf(a) ==
  IF ToNumber(a).k = "nan" THEN NaN
  ELSE Dyadic(ToNumber(a).n, ToNumber(a).d + 1)

\* a < c for an integer c (false for NaN)
JsLess(a, c) == ToNumber(a).k = "num" /\ ToNumber(a).n < c * 2^(ToNumber(a).d)

\* a < 0 (false for NaN)
JsNegative(a) == ToNumber(a).k = "num" /\ ToNumber(a).n < 0

\* parseInt(v) of a value that is already a number or missing: String(v) is
\* parsed, so null and undefined give NaN and a fraction is cut at the point
\* (numbers below 2^-19, which print in exponent form, do not arise: d < 20)
ParseIntOfNumber(v) ==
  IF v.k # "num" THEN NaN
  ELSE IF v.n >= 0 THEN Num(v.n \div 2^(v.d))
  ELSE Num(0 - ((0 - v.n) \div 2^(v.d)))

(***************************************************************************)
(* Strings as token sequences                                              *)
(***************************************************************************)
Digits == {"0", "1", "2", "3", "4", "5", "6", "7", "8", "9"}

DigitVal(c) ==
  CASE c = "0" -> 0 [] c = "1" -> 1 [] c = "2" -> 2 [] c = "3" -> 3
    [] c = "4" -> 4 [] c = "5" -> 5 [] c = "6" -> 6 [] c = "7" -> 7
    [] c = "8" -> 8 [] c = "9" -> 9

RECURSIVE LeadingDigits(_, _, _)
\* the value of the longest prefix of digits of s, acc so far, seen = a digit was read
LeadingDigits(s, acc, seen) ==
  IF s # <<>> /\ Head(s) \in Digits
  THEN LeadingDigits(Tail(s), 10 * acc + DigitVal(Head(s)), TRUE)
  ELSE IF seen THEN Num(acc) ELSE NaN

\* parseInt(s) of a string: optional sign, then leading digits; NaN if none
ParseInt(s) ==
  IF s # <<>> /\ Head(s) = "-"
  THEN LET m == LeadingDigits(Tail(s), 0, FALSE)
       IN IF m.k = "num" THEN Num(0 - m.n) ELSE NaN
  ELSE LeadingDigits(s, 0, FALSE)

RECURSIVE SplitAcc(_, _, _)
SplitAcc(s, sep, cur) ==
  IF s = <<>> THEN <<cur>>
  ELSE IF Head(s) = sep THEN <<cur>> \o SplitAcc(Tail(s), sep, <<>>)
  ELSE SplitAcc(Tail(s), sep, Append(cur, Head(s)))

\* s.split(sep)
Split(s, sep) == SplitAcc(s, sep, <<>>)

RECURSIVE Join(_, _)
\* parts.join(sep)
Join(parts, sep) ==
  IF parts = <<>> THEN <<>>
  ELSE IF Len(parts) = 1 THEN Head(parts)
  ELSE Head(parts) \o <<sep>> \o Join(Tail(parts), sep)

RECURSIVE Escape(_)
\* pointer.escape: "~" becomes "~0" and "/" becomes "~1"
Escape(s) ==
  IF s = <<>> THEN <<>>
  ELSE (CASE Head(s) = "~" -> <<"~", "0">>
          [] Head(s) = "/" -> <<"~", "1">>
          [] OTHER -> <<Head(s)>>) \o Escape(Tail(s))

RECURSIVE Unescape(_)
\* the patch library's unescaping of one path component
Unescape(s) ==
  IF s = <<>> THEN <<>>
  ELSE IF Len(s) >= 2 /\ s[1] = "~" /\ s[2] = "1" THEN <<"/">> \o Unescape(Tail(Tail(s)))
  ELSE IF Len(s) >= 2 /\ s[1] = "~" /\ s[2] = "0" THEN <<"~">> \o Unescape(Tail(Tail(s)))
  ELSE <<Head(s)>> \o Unescape(Tail(s))

\* the undefined id (a profile without an "id" property)
NoId == <<>>

\* parts[i], the empty string when it is undefined (as join prints it)
PartOrEmpty(parts, i) == IF i <= Len(parts) THEN parts[i] ELSE <<>>

(***************************************************************************)
(* Profiles                                                                *)
(***************************************************************************)
NoEquipment == [present |-> FALSE, weapon |-> "undefined"]
NoList == [present |-> FALSE, items |-> <<>>]
NoEffects == [present |-> FALSE, names |-> {}]

\* the object {}: every field absent
EmptyObject ==
  [id |-> NoId, name |-> "undefined", type |-> "undefined", alias |-> "undefined",
   health |-> Undefined, stamina |-> Undefined, experience |-> Undefined,
   equipment |-> NoEquipment, weapon |-> "undefined", inventory |-> NoList,
   presence |-> "undefined", effects |-> NoEffects, wealth |-> Undefined,
   cooldown |-> Undefined]

NumericFields == {"health", "stamina", "experience", "wealth", "cooldown"}

\* the result of a read: the value found, or the not-found signal (null)
Found(v) == [found |-> TRUE, value |-> v]
NotFound == [found |-> FALSE, value |-> EmptyObject]

\* new Entity(data): an object carrying the given data
Entity(data) == data

\* x || d on weapon names
WeaponOr(w, d) == IF w \in {"undefined", "null"} THEN d ELSE w

\* Object.assign({}, base, prior) for a base that has only an id
AssignPrior(base, prior) ==
  IF ~prior.found THEN base
  ELSE IF prior.value.id = NoId THEN [prior.value EXCEPT !.id = base.id]
  ELSE prior.value

\* the profile _getProfile builds from the canonical path and the prior read
Hydrate(path, prior) ==
  LET base == Entity([EmptyObject EXCEPT !.id = path])
      data == AssignPrior(base, prior)
  IN [EmptyObject EXCEPT
        !.id = data.id,
        !.name = data.name,
        !.type = "Player",
        !.health = OrDefault(data.health, Num(100)),
        !.stamina = OrDefault(data.stamina, Num(100)),
        !.experience = OrDefault(data.experience, Num(0)),
        !.equipment = [present |-> TRUE, weapon |-> WeaponOr(data.weapon, "null")],
        !.inventory = IF data.inventory.present THEN data.inventory
                      ELSE [present |-> TRUE, items |-> <<>>],
        !.presence = IF data.presence = "undefined" THEN "offline" ELSE data.presence,
        !.effects = IF data.effects.present THEN data.effects
                    ELSE [present |-> TRUE, names |-> {}],
        !.wealth = OrDefault(data.wealth, Num(0))]

(***************************************************************************)
(* The state store: the tree, patches, reads and commit                    *)
(***************************************************************************)
\* the default state of the constructor
DefaultTree ==
  [channels |-> <<>>, players |-> <<>>, services |-> <<>>, users |-> <<>>]

Collections == {"channels", "players", "services", "users"}

\* a pointer "/<collection>/<escaped key>"
EntryPath(collection, target) == <<"/", collection, "/">> \o target

\* a pointer "/<collection>/<escaped key>/<field>"
FieldPath(collection, target, field) ==
  EntryPath(collection, target) \o <<"/", field>>

\* is the field of the entry there to be replaced?
FieldPresent(entry, field) ==
  IF field \in NumericFields THEN entry[field].k # "undef"
  ELSE IF field = "presence" THEN entry[field] # "undefined"
  ELSE TRUE

\* tree with the entry at collection/key set to value
WithEntry(tree, c, key, value) ==
  [tree EXCEPT ![c] =
     [x \in (DOMAIN tree[c]) \cup {key} |-> IF x = key THEN value ELSE tree[c][x]]]

\* one operation of a patch: [ok, tree]; replace fails where nothing is stored
ApplyOperation(tree, op) ==
  LET segs == Split(op.path, "/")
      c == IF Len(segs) >= 2 /\ segs[2] # <<>> THEN segs[2][1] ELSE ""
      key == IF Len(segs) >= 3 THEN Unescape(segs[3]) ELSE <<>>
      field == IF Len(segs) >= 4 /\ segs[4] # <<>> THEN segs[4][1] ELSE ""
      fail == [ok |-> FALSE, tree |-> tree]
  IN IF c \notin Collections THEN fail
     ELSE IF Len(segs) = 3
     THEN IF op.op = "replace" /\ key \notin DOMAIN tree[c] THEN fail
          ELSE [ok |-> TRUE, tree |-> WithEntry(tree, c, key, op.value)]
     ELSE IF Len(segs) = 4 /\ field \in DOMAIN EmptyObject
     THEN IF op.op = "replace"
          THEN IF key \in DOMAIN tree[c] /\ FieldPresent(tree[c][key], field)
               THEN [ok |-> TRUE,
                     tree |-> WithEntry(tree, c, key, [tree[c][key] EXCEPT ![field] = op.value])]
               ELSE fail
          ELSE [ok |-> TRUE,
                tree |-> WithEntry(tree, c, key,
                           [(IF key \in DOMAIN tree[c] THEN tree[c][key] ELSE EmptyObject)
                              EXCEPT ![field] = op.value])]
     ELSE fail

RECURSIVE ApplyPatch(_, _)
\* manager.applyPatch: the operations in order; the first failure throws and
\* leaves the operations already applied in place
ApplyPatch(tree, ops) ==
  IF ops = <<>> THEN [ok |-> TRUE, tree |-> tree]
  ELSE LET r == ApplyOperation(tree, Head(ops))
       IN IF r.ok THEN ApplyPatch(r.tree, Tail(ops)) ELSE r

\* JSON.stringify of a number: NaN is written as null
SerializeNumber(v) == IF v.k = "nan" THEN Null ELSE v

SerializeProfile(p) ==
  [p EXCEPT !.health = SerializeNumber(p.health),
            !.stamina = SerializeNumber(p.stamina),
            !.experience = SerializeNumber(p.experience),
            !.wealth = SerializeNumber(p.wealth),
            !.cooldown = SerializeNumber(p.cooldown)]

\* the serialized tree that commit writes to "/"
Serialize(tree) ==
  [tree EXCEPT !.players = [x \in DOMAIN tree.players |-> SerializeProfile(tree.players[x])]]

\* the durable store before anything was committed; parses = the content at
\* "/" is the serialization of a tree
EmptyStore == [present |-> FALSE, parses |-> TRUE, tree |-> DefaultTree]

\* a durable store whose content at "/" is not the serialization of anything
CorruptStore == [present |-> TRUE, parses |-> FALSE, tree |-> DefaultTree]

\* commit(): the whole current tree is written to the durable path "/"
Commit(tree) == [present |-> TRUE, parses |-> TRUE, tree |-> Serialize(tree)]

\* _GET(path) of an entry: the value at the pointer in the committed tree
Get(st, path) ==
  LET segs == Split(path, "/")
      c == IF Len(segs) >= 2 /\ segs[2] # <<>> THEN segs[2][1] ELSE ""
      key == IF Len(segs) >= 3 THEN Unescape(segs[3]) ELSE <<>>
  IN IF st.present /\ st.parses /\ Len(segs) = 3 /\ c \in Collections
          /\ key \in DOMAIN st.tree[c]
     THEN Found(st.tree[c][key])
     ELSE NotFound

(***************************************************************************)
(* The player registry.  A machine state m is [state, store]: the tree in  *)
(* memory and the durable store.                                           *)
(***************************************************************************)
\* the canonical path _getProfile computes for an id
GetProfilePath(id) ==
  LET parts == Split(id, "/")
  IN IF Len(parts) = 1 THEN Join(<<<<"local">>, <<"users">>, id>>, "/")
     ELSE Join(parts, "/")

\* _getProfile(id): [ok, profile]; a missing id throws
GetProfile(m, id) ==
  IF id = NoId THEN [ok |-> FALSE, profile |-> EmptyObject]
  ELSE LET path == GetProfilePath(id)
           target == Escape(path)
           prior == Get(m.store, EntryPath("players", target))
       IN [ok |-> TRUE, profile |-> Hydrate(path, prior)]

\* the path under which _registerPlayer stores a player
RegisterPlayerPath(player) ==
  LET split == Split(player.id, "/")
      parts == IF Len(split) = 1
               THEN <<<<"local">>, <<"users">>, <<"[object Object]">>>>
               ELSE split
      id == Join(<<parts[1], <<"users">>, PartOrEmpty(parts, 3)>>, "/")
  IN EntryPath("players", Escape(id))

\* _registerPlayer(player): [m, result]; result is the stored value re-read
RegisterPlayer(m, player) ==
  IF player.id = NoId THEN [m |-> m, result |-> NotFound]
  ELSE LET path == RegisterPlayerPath(player)
           data == player
           r == ApplyPatch(m.state, <<[op |-> "replace", path |-> path, value |-> data]>>)
           store2 == Commit(r.tree)
       IN [m |-> [state |-> r.tree, store |-> store2], result |-> Get(store2, path)]

(***************************************************************************)
(* The transfer handler                                                    *)
(***************************************************************************)
Reply(kind, need) == [kind |-> kind, need |-> need]

\* the id of the target profile: `${message.origin.name}/users/${parts[2]}`
TransferTargetId(message, parts) == message.origin \o <<"/", "users", "/">> \o parts[3]

\* the self-transfer test of the handler
IsSelfTransfer(message, parts) ==
  LET actorParts == Split(message.actor, "/")
  IN Len(actorParts) >= 3 /\ actorParts[3] = parts[3]

\* the two-operation batch of a transfer
TransferOps(actor, target, amount) ==
  << [op |-> "replace",
      path |-> FieldPath("players", Escape(actor.id), "wealth"),
      value |-> JsSub(ParseIntOfNumber(actor.wealth), ParseIntOfNumber(amount))],
     [op |-> "replace",
      path |-> FieldPath("players", Escape(target.id), "wealth"),
      value |-> JsAdd(ParseIntOfNumber(target.wealth), ParseIntOfNumber(amount))] >>

\* the shortfall the handler tests and reports: parseInt(actor.wealth - amount)
Shortfall(actor, amount) == ParseIntOfNumber(JsSub(actor.wealth, amount))

\* the batch is applied to the tree and committed; a batch that throws is
\* answered with the failure message and is not committed
TransferPatch(m, ops) ==
  LET r == ApplyPatch(m.state, ops)
  IN IF ~r.ok
     THEN [m |-> [state |-> r.tree, store |-> m.store], reply |-> Reply("failed", Undefined)]
     ELSE [m |-> [state |-> r.tree, store |-> Commit(r.tree)],
           reply |-> Reply("success", Undefined)]

\* the handler from the wealth tests on, for the two profiles and the amount
TransferChecked(m, actor, target, amount) ==
  IF Falsy(actor.wealth) THEN [m |-> m, reply |-> Reply("no_wealth", Undefined)]
  ELSE IF JsNegative(Shortfall(actor, amount))
  THEN [m |-> m, reply |-> Reply("insufficient", Shortfall(actor, amount))]
  ELSE TransferPatch(RegisterPlayer(RegisterPlayer(m, actor).m, target).m,
                     TransferOps(actor, target, amount))

\* the handler from the split of message.object on
TransferParsed(m, message, parts) ==
  IF Len(parts) # 3 THEN [m |-> m, reply |-> Reply("format", Undefined)]
  ELSE IF IsSelfTransfer(message, parts) THEN [m |-> m, reply |-> Reply("self", Undefined)]
  ELSE TransferChecked(m, GetProfile(m, message.actor).profile,
                       GetProfile(m, TransferTargetId(message, parts)).profile,
                       ParseInt(parts[2]))

\* _handleTransferRequest(message): [m, reply]
HandleTransferRequest(m, message) ==
  IF message.object = <<>> THEN [m |-> m, reply |-> Reply("no_object", Undefined)]
  ELSE IF message.actor = <<>> THEN [m |-> m, reply |-> Reply("no_actor", Undefined)]
  ELSE TransferParsed(m, message, Split(message.object, " "))

(***************************************************************************)
(* The tick                                                                *)
(***************************************************************************)
\* member ids of the service
Users == {<<"a">>, <<"b">>}

\* the agent's own id on the service (service.agent.id)
AgentId == <<"bot">>

\* the name of the one service of fabric.services
ServiceName == <<"local">>

\* the entity an encounter of the given kind yields for a player
EncounterEntity(player, kind) ==
  IF kind = "monster"
  THEN [player EXCEPT !.wealth = JsAdd(player.wealth, Num(Loot))]
  ELSE player

\* _rollForEncounter(instance): the player merged with the encounter's entity,
\* or null when the roll gives no encounter
RollForEncounter(instance, kind) ==
  IF kind = "none" THEN NotFound ELSE Found(EncounterEntity(instance, kind))

\* experience at which an entity reaches its next level
LevelThresholds == {10, 30}

\* entity.level: the level derived from the experience of the entity
Level(entity) ==
  IF entity.experience.k = "num"
  THEN Cardinality({t \in LevelThresholds : ~JsLess(entity.experience, t)})
  ELSE 0

\* the text of an announcement: its kind, the player it names, the level
Text(kind, player, level) == [kind |-> kind, player |-> player.id, level |-> level]

\* announce(message): the message is emitted once for every monitored channel
\* of the service
Announce(chans, text) ==
  [i \in DOMAIN chans |-> [target |-> chans[i], object |-> text]]

RECURSIVE AnnounceAll(_, _)
\* the messages that a sequence of calls of announce emits
AnnounceAll(chans, texts) ==
  IF texts = <<>> THEN <<>>
  ELSE Announce(chans, Head(texts)) \o AnnounceAll(chans, Tail(texts))

\* the announcement of _rollForEncounter
EncounterTexts(player, kind) ==
  IF kind = "none" THEN <<>> ELSE <<Text(kind, player, 0)>>

\* the level test of reward: sample.level && sample.level > prior.level
LevelTexts(prior, sample) ==
  IF Level(sample) # 0 /\ Level(sample) > Level(prior)
  THEN <<Text("level", sample, Level(sample))>>
  ELSE <<>>

\* the end of reward: the player replaces its stored entry and the tree is
\* committed; [m, threw], a patch that throws is not caught
RewardPatch(m, player) ==
  LET r == ApplyPatch(m.state, <<[op |-> "replace",
                                  path |-> EntryPath("players", Escape(player.id)),
                                  value |-> player]>>)
  IN IF ~r.ok THEN [m |-> m, threw |-> TRUE]
     ELSE [m |-> [state |-> r.tree, store |-> Commit(r.tree)], threw |-> FALSE]

\* the primary updates of reward
PrimaryUpdates(player) ==
  [player EXCEPT
     !.wealth = JsAdd(OrDefault(player.wealth, Num(0)), Num(PER_TICK_CAPITAL)),
     !.experience = JsAdd(OrDefault(player.experience, Num(0)), Num(PER_TICK_EXPERIENCE))]

\* Object.assign(player, instance) when there was an encounter
ApplyEncounter(player, instance) == IF instance.found THEN instance.value ELSE player

\* the result of reward: what the patch left and the texts announced before it
RewardAnnounced(r, texts) == [m |-> r.m, threw |-> r.threw, texts |-> texts]

\* reward from the level test on: the announcement is made before the patch
RewardSample(m, prior, sample, texts) ==
  RewardAnnounced(RewardPatch(m, sample), texts \o LevelTexts(prior, sample))

\* reward(player): [m, threw, texts]
Reward(m, player, kind) ==
  RewardSample(m, Entity(player),
               PrimaryUpdates(ApplyEncounter(player, RollForEncounter(player, kind))),
               EncounterTexts(player, kind))

\* the cooldown of a profile relaxed by one tick
Relax(profile) ==
  IF ~Falsy(profile.cooldown)
  THEN [profile EXCEPT !.cooldown = JsSub(profile.cooldown, Num(PER_TICK_CAPITAL))]
  ELSE profile

\* _computeRound from the profile it fetched on
ComputeRoundOf(m, got, kind) ==
  IF ~got.ok THEN [m |-> m, threw |-> FALSE, texts |-> <<>>]
  ELSE IF got.profile.presence = "online" THEN Reward(m, Relax(got.profile), kind)
  ELSE [m |-> m, threw |-> FALSE, texts |-> <<>>]

\* _computeRound(player): [m, threw, texts]
ComputeRound(m, player, kind) == ComputeRoundOf(m, GetProfile(m, player.id), kind)

RECURSIVE GetPlayersOf(_, _, _, _)
\* the end of one pass of the member loop: the registered player, if any,
\* gets the presence the service reports and joins the list
GetPlayersPush(reg, members, presenceOf, players) ==
  GetPlayersOf(reg.m, Tail(members), presenceOf,
               IF reg.result.found
               THEN Append(players,
                           [reg.result.value EXCEPT !.presence = presenceOf[Head(members)]])
               ELSE players)

\* the member loop of _getPlayers for one channel: [m, returned, players];
\* returned = the function returned (undefined) at the agent's own id
GetPlayersOf(m, members, presenceOf, players) ==
  IF members = <<>> THEN [m |-> m, returned |-> FALSE, players |-> players]
  ELSE IF Head(members) = AgentId THEN [m |-> m, returned |-> TRUE, players |-> <<>>]
  ELSE GetPlayersPush(
         RegisterPlayer(m, GetProfile(m, Join(<<ServiceName, <<"users">>, Head(members)>>, "/")).profile),
         members, presenceOf, players)

RECURSIVE GetPlayers(_, _, _, _, _)
\* the channel loop of _getPlayers from the members of one channel on
GetPlayersNext(r, chans, members, presenceOf) ==
  IF r.returned THEN r ELSE GetPlayers(r.m, Tail(chans), members, presenceOf, r.players)

\* _getPlayers(): the channel loop over rpg.channels
GetPlayers(m, chans, members, presenceOf, players) ==
  IF chans = <<>> THEN [m |-> m, returned |-> FALSE, players |-> players]
  ELSE GetPlayersNext(GetPlayersOf(m, members, presenceOf, players), chans, members, presenceOf)

\* the two filters of _getActivePlayers
ActiveFilter(players) ==
  SelectSeq(SelectSeq(players, LAMBDA x : x.presence = "online"),
            LAMBDA x : x.alias # ConfigAlias)

RECURSIVE ComputeRounds(_, _, _, _, _)
\* the loop of tick() after one round: a round that throws ends the loop
ComputeRoundsNext(r, players, kinds, processed, texts) ==
  IF r.threw
  THEN [m |-> r.m, processed |-> processed, threw |-> TRUE, texts |-> texts \o r.texts]
  ELSE ComputeRounds(r.m, Tail(players), Tail(kinds), processed, texts \o r.texts)

\* the loop of tick(): [m, processed, threw, texts]
ComputeRounds(m, players, kinds, processed, texts) ==
  IF players = <<>>
  THEN [m |-> m, processed |-> processed, threw |-> FALSE, texts |-> texts]
  ELSE ComputeRoundsNext(ComputeRound(m, Head(players), Head(kinds)), players, kinds,
                         Append(processed, Head(players).id), texts)

\* what a tick leaves: the machine, the active players, the players a round
\* was computed for, the tick signals emitted and the texts announced
TickResult(fetched, active, run) ==
  [m |-> run.m, fetched |-> fetched, active |-> [i \in DOMAIN active |-> active[i].id],
   processed |-> run.processed, signals |-> IF run.threw THEN 0 ELSE 1,
   texts |-> run.texts]

\* tick() from the active players on
TickRounds(got, active, kinds) ==
  TickResult(~got.returned, active, ComputeRounds(got.m, active, kinds, <<>>, <<>>))

\* tick() from the fetched players on: a list that is undefined makes
\* _getActivePlayers throw, which tick() logs
TickFetched(got, kinds) ==
  TickRounds(got, IF got.returned THEN <<>> ELSE ActiveFilter(got.players), kinds)

\* tick(): [m, fetched, active, processed, signals, texts]
TickRun(m, chans, members, presenceOf, kinds) ==
  TickFetched(GetPlayers(m, chans, members, presenceOf, <<>>), kinds)

(***************************************************************************)
(* Joins, parts and the registration of channels, users and services       *)
(***************************************************************************)
\* id.split('/'), completed to three parts for a single-segment id
CanonicalParts(id, kind) ==
  IF Len(Split(id, "/")) = 1 THEN <<<<"local">>, <<kind>>, id>> ELSE Split(id, "/")

\* a patch of one operation inside try/catch, then commit
PatchAndCommit(m, op) ==
  LET r == ApplyPatch(m.state, <<op>>)
  IN [state |-> r.tree, store |-> Commit(r.tree)]

\* _registerChannel(channel): the machine it leaves
RegisterChannel(m, channel) ==
  IF channel.id = NoId THEN m
  ELSE PatchAndCommit(m,
         [op |-> "replace",
          path |-> EntryPath("channels", Escape(Join(CanonicalParts(channel.id, "channels"), "/"))),
          value |-> [id |-> Join(CanonicalParts(channel.id, "channels"), "/"),
                     name |-> IF channel.name = <<>>
                              THEN Join(CanonicalParts(channel.id, "channels"), "/")
                              ELSE channel.name,
                     members |-> <<>>]])

\* _registerUser(user): the machine it leaves
RegisterUser(m, user) ==
  IF user.id = NoId \/ user.name = <<>> THEN m
  ELSE PatchAndCommit(m,
         [op |-> "replace",
          path |-> EntryPath("users", Escape(Join(CanonicalParts(user.id, "users"), "/"))),
          value |-> GetProfile(m, Join(CanonicalParts(user.id, "users"), "/")).profile])

\* _registerService(service): the add is not inside try/catch
RegisterService(m, service) ==
  PatchAndCommit(m, [op |-> "add", path |-> EntryPath("services", service.name),
                     value |-> [users |-> <<>>, channels |-> <<>>]])

\* the end of _handleJoin: _welcomePlayer reads player.name, which throws
\* when the registration returned nothing
JoinWelcome(reg) ==
  [m |-> reg.m, threw |-> ~reg.result.found,
   texts |-> IF reg.result.found THEN <<Text("welcome", reg.result.value, 0)>> ELSE <<>>]

\* _handleJoin from the registration of the channel on
JoinRegistered(m, chans, join) ==
  IF \E i \in DOMAIN chans : <<chans[i]>> = CanonicalParts(join.channel, "channels")[3]
  THEN JoinWelcome(RegisterPlayer(m, [EmptyObject EXCEPT !.id = join.user]))
  ELSE [m |-> m, threw |-> FALSE, texts |-> <<>>]

\* _handleJoin(join): [m, threw, texts]
HandleJoin(m, chans, join) ==
  JoinRegistered(RegisterChannel(m, [id |-> join.channel, name |-> join.channel]), chans, join)

\* the presence patch of _disjoinPlayer: a patch that throws is caught and
\* ends the handler before the commit
DisjoinPresence(m, player) ==
  LET r == ApplyPatch(m.state, <<[op |-> "replace",
                                  path |-> FieldPath("players", Escape(player.id), "presence"),
                                  value |-> "offline"]>>)
  IN IF r.ok THEN [state |-> r.tree, store |-> Commit(r.tree)] ELSE m

\* _disjoinPlayer(player): the machine it leaves
DisjoinPlayer(m, player) == DisjoinPresence(RegisterPlayer(m, player).m, player)

(***************************************************************************)
(* Startup                                                                 *)
(***************************************************************************)
\* what can fail while start() runs: nothing, store.open(), fabric.start(),
\* or the read of the prior state at "/"
StartFaults == {"none", "open", "transport", "read"}

\* rpg._GET('/') in start(): the serialized prior state, if the read gives one
ReadRoot(st, fault) ==
  IF fault = "read" \/ ~st.present THEN [found |-> FALSE, parses |-> FALSE, tree |-> DefaultTree]
  ELSE [found |-> TRUE, parses |-> st.parses, tree |-> st.tree]

\* Object.assign({}, rpg.state, parsed): the root keys of the snapshot win
Merge(tree, parsed) ==
  [c \in DOMAIN tree |-> IF c \in DOMAIN parsed THEN parsed[c] ELSE tree[c]]

\* the restore of start(): a snapshot that was read and parses is merged
\* over the state; otherwise the state stays as it is
Restore(tree, read) ==
  IF read.found /\ read.parses THEN Merge(tree, read.tree) ELSE tree

\* start() without the catch on the read of the prior state
StartRunUncaughtRead(m, fault) ==
  IF fault \in {"open", "transport", "read"}
  THEN [state |-> m.state, subscribed |-> FALSE, heartbeat |-> FALSE, ready |-> FALSE]
  ELSE [state |-> Restore(m.state, ReadRoot(m.store, fault)),
        subscribed |-> TRUE, heartbeat |-> TRUE, ready |-> TRUE]

\* start(): a failure of store.open() or fabric.start() rejects before
\* anything is subscribed; otherwise the state is restored, the handlers are
\* subscribed, the heartbeat is set and ready is emitted
StartRun(m, fault) ==
  IF fault \in {"open", "transport"}
  THEN [state |-> m.state, subscribed |-> FALSE, heartbeat |-> FALSE, ready |-> FALSE]
  ELSE [state |-> Restore(m.state, ReadRoot(m.store, fault)),
        subscribed |-> TRUE, heartbeat |-> TRUE, ready |-> TRUE]

(***************************************************************************)
(* The penalty                                                             *)
(***************************************************************************)
\* the notify test of penalize
Notify(player) == Falsy(player.cooldown) \/ JsLess(player.cooldown, 100)

\* the two-operation batch of penalize
PenalizeOps(player) ==
  << [op |-> "replace",
      path |-> FieldPath("players", Escape(player.id), "cooldown"),
      value |-> Num(1000)],
     [op |-> "replace",
      path |-> FieldPath("players", Escape(player.id), "wealth"),
      value |-> JsHalf(player.wealth)] >>

\* the batch is applied and committed: [m, threw]; a batch that throws is not
\* caught, is not committed and leaves the operations already applied
PenalizePatch(m, ops) ==
  LET r == ApplyPatch(m.state, ops)
  IN IF ~r.ok THEN [m |-> [state |-> r.tree, store |-> m.store], threw |-> TRUE]
     ELSE [m |-> [state |-> r.tree, store |-> Commit(r.tree)], threw |-> FALSE]

\* the end of penalize: the announcement follows the commit
PenalizeResult(r, notify, player) ==
  [m |-> r.m, threw |-> r.threw,
   texts |-> IF ~r.threw /\ notify THEN <<Text("penalty", player, 0)>> ELSE <<>>]

\* penalize(player): [m, threw, texts]
Penalize(m, player) ==
  PenalizeResult(PenalizePatch(m, PenalizeOps(player)), Notify(player), player)

\* _handleMessage from the profile it fetched on
HandleMessageOf(m, got) ==
  IF ~got.ok THEN [m |-> m, threw |-> TRUE, texts |-> <<>>]
  ELSE Penalize(m, got.profile)

\* _handleMessage(message): [m, threw, texts]; only messages whose target is
\* a monitored channel are penalized
HandleMessage(m, chans, message) ==
  IF ~(\E i \in DOMAIN chans : chans[i] = message.target)
  THEN [m |-> m, threw |-> FALSE, texts |-> <<>>]
  ELSE HandleMessageOf(m, GetProfile(m, message.actor))

(***************************************************************************)
(* Inputs                                                                  *)
(***************************************************************************)
\* the canonical path of a user of the service
UserPath(u) == Join(<<ServiceName, <<"users">>, u>>, "/")

\* the path _registerPlayer computes for every single-segment id
ObjectPath == <<"local", "/", "users", "/", "[object Object]">>

\* partial profiles that arrive from peers
Veteran ==
  [EmptyObject EXCEPT !.wealth = Num(100), !.presence = "online",
                      !.experience = Num(10), !.cooldown = Num(1000),
                      !.equipment = [present |-> TRUE, weapon |-> "sword"]]

Newcomer == EmptyObject

\* a profile stored with the short id of a join event
Joined == [EmptyObject EXCEPT !.id = <<"a">>, !.wealth = Num(70), !.presence = "online"]

\* a profile with an odd wealth whose cooldown has nearly run out
Offender ==
  [EmptyObject EXCEPT !.wealth = Num(5), !.presence = "online", !.cooldown = Num(50)]

PatchProfiles == {Veteran, Newcomer, Joined, Offender}

PatchKeys == {UserPath(<<"a">>), UserPath(<<"b">>), ObjectPath}

\* the durable store a start may find
TreeWith(players) == [DefaultTree EXCEPT !.players = players]

ExampleStore ==
  Commit(TreeWith([x \in {UserPath(<<"a">>), UserPath(<<"b">>)} |->
                     IF x = UserPath(<<"a">>) THEN Veteran ELSE Newcomer]))

InitialStores == {EmptyStore, ExampleStore}

\* the amount tokens of a transfer
AmountWords == { <<"3", "0">>, <<"8", "0">>, <<"-", "5">>, <<"0">>, <<"abc">> }

ActorIds == {<<"a">>, UserPath(<<"a">>), UserPath(<<"b">>)}

TransferObjects ==
  { <<"!transfer", " ">> \o w \o <<" ">> \o u : w \in AmountWords, u \in Users }

TransferMessages ==
  [actor : ActorIds, object : TransferObjects, origin : {ServiceName}]
    \cup { [actor |-> <<>>, object |-> <<"!transfer", " ", "3", "0", " ", "b">>,
            origin |-> ServiceName],
           [actor |-> <<"a">>, object |-> <<>>, origin |-> ServiceName],
           [actor |-> <<"a">>, object |-> <<"!transfer", " ", "b">>, origin |-> ServiceName] }

\* what the service answers during one tick: the member list of the channel,
\* the presence of each member, and the encounter rolled for each round
MemberLists ==
  { <<>>, << <<"a">> >>, << <<"a">>, <<"b">> >>, << AgentId, <<"a">> >>,
    << <<"a">>, AgentId, <<"b">> >> }

Presences == [Users -> {"online", "offline"}]

EncounterKinds == { <<"none", "none">>, <<"monster", "none">> }

TickInputs == [members : MemberLists, presence : Presences, kinds : EncounterKinds]

\* the messages observed on the service
ChannelMessages == [actor : ActorIds, target : {"idlerpg", "lobby"}]

\* the join, part, user, channel and service events of the service
JoinEvents ==
  [channel : {<<"idlerpg">>, <<"local", "/", "channels", "/", "idlerpg">>, <<"lobby">>},
   user : {<<"a">>, UserPath(<<"a">>)}]

PartEvents ==
  { [EmptyObject EXCEPT !.id = <<"a">>],
    [EmptyObject EXCEPT !.id = UserPath(<<"a">>)],
    [EmptyObject EXCEPT !.id = UserPath(<<"b">>), !.presence = "online"] }

UserEvents == { [id |-> <<"a">>, name |-> <<"alice">>], [id |-> UserPath(<<"b">>), name |-> <<>>] }

ChannelEvents == { [id |-> <<"idlerpg">>, name |-> <<>>], [id |-> NoId, name |-> <<>>] }

ServiceEvents == { [name |-> ServiceName] }

\* the inputs of the interleaved machine
AsyncTickInputs ==
  { in \in TickInputs :
      /\ in.members \in { << <<"a">> >>, << <<"a">>, <<"b">> >> }
      /\ in.presence = [u \in Users |-> "online"]
      /\ in.kinds = <<"none", "none">> }

AsyncTransfers ==
  { [actor |-> UserPath(<<"a">>), object |-> <<"!transfer", " ", "3", "0", " ", "b">>,
     origin |-> ServiceName],
    [actor |-> UserPath(<<"b">>), object |-> <<"!transfer", " ", "3", "0", " ", "b">>,
     origin |-> ServiceName] }

AsyncMessages == { [actor |-> <<"a">>, target |-> "idlerpg"],
                   [actor |-> <<"a">>, target |-> "lobby"] }

\* the profiles _registerPlayer is called with
RegisterInputs ==
  { [EmptyObject EXCEPT !.id = <<"a">>],
    [EmptyObject EXCEPT !.id = UserPath(<<"b">>)],
    Hydrate(UserPath(<<"a">>), Found(Veteran)),
    Hydrate(UserPath(<<"b">>), NotFound),
    EmptyObject }

\* the ids _getProfile is called with
ReadIds == {<<"a">>, UserPath(<<"a">>)}

\* the partial profiles a store may hold for a user
PartialProfiles ==
  { [EmptyObject EXCEPT !.health = h, !.wealth = w, !.presence = p, !.weapon = g,
                        !.equipment = e, !.cooldown = c] :
      h \in {Undefined, Num(0), Num(50)},
      w \in {Undefined, Null, Num(70)},
      p \in {"undefined", "online"},
      g \in {"undefined", "sword"},
      e \in {NoEquipment, [present |-> TRUE, weapon |-> "sword"]},
      c \in {Undefined, Num(1000)} }

HydrateStores ==
  {EmptyStore} \cup { Commit(TreeWith([x \in {UserPath(<<"a">>)} |-> p])) : p \in PartialProfiles }

(***************************************************************************)
(* The state machine                                                       *)
(***************************************************************************)
VARIABLES
  state,      \* rpg.state: the tree in memory
  store,      \* the durable store
  started,    \* start() has subscribed the handlers
  channels,   \* rpg.channels: the monitored channels
  commands,   \* the number of commands and ticks handled
  lastOp,     \* the handler that ran last
  call,       \* what it was given
  outcome,    \* what it returned or signalled
  inflight    \* the handlers that are suspended at an await

vars == <<state, store, started, channels, commands, lastOp, call, outcome, inflight>>

Machine == [state |-> state, store |-> store]

Nothing == [kind |-> "none"]

Init ==
  /\ state = DefaultTree
  /\ store \in InitialStores
  /\ started = FALSE
  /\ channels = <<>>
  /\ commands = 0
  /\ lastOp = "new"
  /\ call = Nothing
  /\ outcome = Nothing
  /\ inflight = <<>>

\* start(), called once on the new instance (scripts/idlerpg.js): the prior
\* state is read from "/" and merged over the default tree
Start ==
  /\ ~started
  /\ lastOp = "new"
  /\ \E fault \in StartFaults :
       LET r == StartRun(Machine, fault)
       IN /\ state' = r.state
          /\ started' = r.subscribed
          /\ call' = [fault |-> fault]
          /\ outcome' = [ready |-> r.ready, heartbeat |-> r.heartbeat,
                         subscribed |-> r.subscribed]
  /\ lastOp' = "start"
  /\ UNCHANGED <<store, channels, commands, inflight>>

\* the process ends and a new one is constructed over the same durable store
Restart ==
  /\ lastOp # "new"
  /\ state' = DefaultTree
  /\ started' = FALSE
  /\ channels' = <<>>
  /\ commands' = 0
  /\ lastOp' = "new"
  /\ call' = Nothing
  /\ outcome' = Nothing
  /\ inflight' = <<>>
  /\ UNCHANGED store

\* _handleServiceReady(service): the configured channel whose members the
\* service can list becomes a monitored channel
HandleServiceReady ==
  /\ started
  /\ channels = <<>>
  /\ commands = 0
  /\ \E listed \in BOOLEAN :
       channels' = IF listed THEN Append(channels, "idlerpg") ELSE channels
  /\ lastOp' = "ready"
  /\ UNCHANGED <<state, store, started, commands, call, outcome, inflight>>

\* _handlePatch(patch): an inbound operation is applied and committed
\* (inbound patches are modelled up to the first command)
HandlePatch ==
  /\ started
  /\ commands = 0
  /\ \E key \in PatchKeys, value \in PatchProfiles :
       LET r == ApplyOperation(state, [op |-> "add",
                                       path |-> EntryPath("players", Escape(key)),
                                       value |-> value])
       IN /\ state' = r.tree
          /\ store' = Commit(r.tree)
  /\ lastOp' = "patch"
  /\ UNCHANGED <<started, channels, commands, call, outcome, inflight>>

\* a transfer command arrives
Transfer ==
  /\ started
  /\ commands < MaxCommands
  /\ \E msg \in TransferMessages :
       LET r == HandleTransferRequest(Machine, msg)
       IN /\ state' = r.m.state
          /\ store' = r.m.store
          /\ call' = msg
          /\ outcome' = r.reply
  /\ commands' = commands + 1
  /\ lastOp' = "transfer"
  /\ UNCHANGED <<started, channels, inflight>>

\* the heartbeat fires: one whole tick
Tick ==
  /\ started
  /\ commands < MaxCommands
  /\ \E in \in TickInputs :
       LET r == TickRun(Machine, channels, in.members, in.presence, in.kinds)
       IN /\ state' = r.m.state
          /\ store' = r.m.store
          /\ call' = in
          /\ outcome' = [fetched |-> r.fetched, active |-> r.active,
                         processed |-> r.processed, signals |-> r.signals,
                         announced |-> AnnounceAll(channels, r.texts)]
  /\ commands' = commands + 1
  /\ lastOp' = "tick"
  /\ UNCHANGED <<started, channels, inflight>>

\* a message is observed on the service
Message ==
  /\ started
  /\ commands < MaxMessages
  /\ \E msg \in ChannelMessages :
       LET r == HandleMessage(Machine, channels, msg)
       IN /\ state' = r.m.state
          /\ store' = r.m.store
          /\ call' = msg
          /\ outcome' = [threw |-> r.threw, announced |-> AnnounceAll(channels, r.texts)]
  /\ commands' = commands + 1
  /\ lastOp' = "message"
  /\ UNCHANGED <<started, channels, inflight>>

\* a user joins a channel
JoinEvent ==
  /\ started
  /\ commands < MaxCommands
  /\ \E join \in JoinEvents :
       LET r == HandleJoin(Machine, channels, join)
       IN /\ state' = r.m.state
          /\ store' = r.m.store
          /\ call' = join
          /\ outcome' = [threw |-> r.threw, announced |-> AnnounceAll(channels, r.texts)]
  /\ commands' = commands + 1
  /\ lastOp' = "join"
  /\ UNCHANGED <<started, channels, inflight>>

\* a player parts
PartEvent ==
  /\ started
  /\ commands < MaxCommands
  /\ \E player \in PartEvents :
       LET m == DisjoinPlayer(Machine, player)
       IN /\ state' = m.state
          /\ store' = m.store
          /\ call' = player
  /\ commands' = commands + 1
  /\ lastOp' = "part"
  /\ outcome' = Nothing
  /\ UNCHANGED <<started, channels, inflight>>

\* a user, a channel or a service is registered
RegistryEvent ==
  /\ started
  /\ commands < MaxCommands
  /\ \/ \E user \in UserEvents :
          /\ state' = RegisterUser(Machine, user).state
          /\ store' = RegisterUser(Machine, user).store
          /\ call' = user
          /\ lastOp' = "user"
     \/ \E channel \in ChannelEvents :
          /\ state' = RegisterChannel(Machine, channel).state
          /\ store' = RegisterChannel(Machine, channel).store
          /\ call' = channel
          /\ lastOp' = "channel"
     \/ \E service \in ServiceEvents :
          /\ state' = RegisterService(Machine, service).state
          /\ store' = RegisterService(Machine, service).store
          /\ call' = service
          /\ lastOp' = "service"
  /\ commands' = commands + 1
  /\ outcome' = Nothing
  /\ UNCHANGED <<started, channels, inflight>>

\* _registerPlayer is called with a profile (by a join, a part, a transfer or
\* the member loop of a tick)
RegisterCall ==
  /\ started
  /\ commands < MaxCommands
  /\ \E player \in RegisterInputs :
       LET r == RegisterPlayer(Machine, player)
       IN /\ state' = r.m.state
          /\ store' = r.m.store
          /\ call' = player
          /\ outcome' = r.result
  /\ commands' = commands + 1
  /\ lastOp' = "register"
  /\ UNCHANGED <<started, channels, inflight>>

\* _getProfile(id) is called
ReadProfile ==
  /\ started
  /\ lastOp # "read"
  /\ \E id \in ReadIds :
       /\ call' = [id |-> id]
       /\ outcome' = GetProfile(Machine, id)
  /\ lastOp' = "read"
  /\ UNCHANGED <<state, store, started, channels, commands, inflight>>

\* the profile just read is registered and read again, as the member loop of
\* _getPlayers followed by _computeRound does
Rehydrate ==
  /\ started
  /\ lastOp = "read"
  /\ commands < MaxCommands
  /\ LET r == RegisterPlayer(Machine, outcome.profile)
     IN /\ state' = r.m.state
        /\ store' = r.m.store
        /\ outcome' = GetProfile(r.m, call.id)
  /\ call' = [id |-> call.id, profile |-> outcome.profile]
  /\ commands' = commands + 1
  /\ lastOp' = "rehydrate"
  /\ UNCHANGED <<started, channels, inflight>>

(***************************************************************************)
(* The interleaved machine: a handler runs from one await to the next in   *)
(* one step, and the handlers suspended at an await are the tasks in       *)
(* flight.  The steps are cut where the handlers await a read of the       *)
(* store (_getProfile), the players of a tick, and a commit.               *)
(***************************************************************************)
NoRead == [ok |-> FALSE, profile |-> EmptyObject]

\* a handler suspended at pc with its local variables
Task(op, pc, in) ==
  [op |-> op, pc |-> pc, in |-> in, players |-> <<>>, kinds |-> <<>>,
   got |-> NoRead, actor |-> EmptyObject, target |-> EmptyObject]

SetTask(q, i, t) == [q EXCEPT ![i] = t]

DropTask(q, i) == SubSeq(q, 1, i - 1) \o SubSeq(q, i + 1, Len(q))

\* the heartbeat fires: tick() is called and awaits the active players
TimerFires ==
  /\ started
  /\ commands < MaxTasks
  /\ \E in \in AsyncTickInputs :
       /\ inflight' = Append(inflight, [Task("tick", "fetch", in) EXCEPT !.kinds = in.kinds])
       /\ call' = in
  /\ commands' = commands + 1
  /\ lastOp' = "timer"
  /\ outcome' = Nothing
  /\ UNCHANGED <<state, store, started, channels>>

\* _getActivePlayers resolves for a tick
TickFetch ==
  \E i \in DOMAIN inflight :
    /\ inflight[i].op = "tick" /\ inflight[i].pc = "fetch"
    /\ LET got == GetPlayers(Machine, channels, inflight[i].in.members,
                             inflight[i].in.presence, <<>>)
       IN /\ state' = got.m.state
          /\ store' = got.m.store
          /\ inflight' = SetTask(inflight, i,
               [inflight[i] EXCEPT !.pc = "round",
                  !.players = IF got.returned THEN <<>> ELSE ActiveFilter(got.players)])
          /\ outcome' = [fetched |-> ~got.returned]
    /\ call' = inflight[i].in
    /\ lastOp' = "tick_fetch"
    /\ UNCHANGED <<started, channels, commands>>

\* _computeRound reads the profile of the next player of a tick
TickRead ==
  \E i \in DOMAIN inflight :
    /\ inflight[i].op = "tick" /\ inflight[i].pc = "round"
    /\ inflight[i].players # <<>>
    /\ inflight' = SetTask(inflight, i,
         [inflight[i] EXCEPT !.pc = "reward",
            !.got = GetProfile(Machine, Head(inflight[i].players).id)])
    /\ call' = [id |-> Head(inflight[i].players).id]
    /\ outcome' = Nothing
    /\ lastOp' = "tick_read"
    /\ UNCHANGED <<state, store, started, channels, commands>>

\* _computeRound goes on with the profile it read: the reward is patched and
\* committed; a round that throws ends the tick
TickReward ==
  \E i \in DOMAIN inflight :
    /\ inflight[i].op = "tick" /\ inflight[i].pc = "reward"
    /\ LET r == ComputeRoundOf(Machine, inflight[i].got, Head(inflight[i].kinds))
       IN /\ state' = r.m.state
          /\ store' = r.m.store
          /\ inflight' = IF r.threw THEN DropTask(inflight, i)
                          ELSE SetTask(inflight, i,
                                 [inflight[i] EXCEPT !.pc = "round",
                                    !.players = Tail(inflight[i].players),
                                    !.kinds = Tail(inflight[i].kinds)])
          /\ outcome' = [threw |-> r.threw, announced |-> AnnounceAll(channels, r.texts)]
    /\ call' = [read |-> inflight[i].got.profile]
    /\ lastOp' = "tick_reward"
    /\ UNCHANGED <<started, channels, commands>>

\* the loop of a tick is through: the tick signal is emitted
TickEmit ==
  \E i \in DOMAIN inflight :
    /\ inflight[i].op = "tick" /\ inflight[i].pc = "round"
    /\ inflight[i].players = <<>>
    /\ inflight' = DropTask(inflight, i)
    /\ call' = inflight[i].in
    /\ outcome' = [signals |-> 1]
    /\ lastOp' = "tick_done"
    /\ UNCHANGED <<state, store, started, channels, commands>>

\* the tests that precede the first await of the transfer handler: the
\* kind of the reply, "none" when the handler goes on
TransferEarly(message) ==
  IF message.object = <<>> THEN "no_object"
  ELSE IF message.actor = <<>> THEN "no_actor"
  ELSE IF Len(Split(message.object, " ")) # 3 THEN "format"
  ELSE IF IsSelfTransfer(message, Split(message.object, " ")) THEN "self"
  ELSE "none"

\* the transfer handler from the two profiles to the commit of the second
\* registration: [m, reply, go]
TransferRegistered(m, actor, target, amount) ==
  IF Falsy(actor.wealth)
  THEN [m |-> m, reply |-> Reply("no_wealth", Undefined), go |-> FALSE]
  ELSE IF JsNegative(Shortfall(actor, amount))
  THEN [m |-> m, reply |-> Reply("insufficient", Shortfall(actor, amount)), go |-> FALSE]
  ELSE [m |-> RegisterPlayer(RegisterPlayer(m, actor).m, target).m,
        reply |-> Reply("none", Undefined), go |-> TRUE]

\* a transfer command arrives: it is answered at once or awaits its profiles
TransferBegin ==
  /\ started
  /\ commands < MaxTasks
  /\ \E msg \in AsyncTransfers :
       /\ inflight' = IF TransferEarly(msg) = "none"
                       THEN Append(inflight, Task("transfer", "read", msg))
                       ELSE inflight
       /\ call' = msg
       /\ outcome' = Reply(TransferEarly(msg), Undefined)
  /\ commands' = commands + 1
  /\ lastOp' = "transfer_begin"
  /\ UNCHANGED <<state, store, started, channels>>

\* the two profiles of a transfer are read
TransferRead ==
  \E i \in DOMAIN inflight :
    /\ inflight[i].op = "transfer" /\ inflight[i].pc = "read"
    /\ inflight' = SetTask(inflight, i,
         [inflight[i] EXCEPT !.pc = "check",
            !.actor = GetProfile(Machine, inflight[i].in.actor).profile,
            !.target = GetProfile(Machine,
                         TransferTargetId(inflight[i].in,
                                          Split(inflight[i].in.object, " "))).profile])
    /\ call' = inflight[i].in
    /\ outcome' = Nothing
    /\ lastOp' = "transfer_read"
    /\ UNCHANGED <<state, store, started, channels, commands>>

\* the wealth tests of a transfer and the registration of both players
TransferRegister ==
  \E i \in DOMAIN inflight :
    /\ inflight[i].op = "transfer" /\ inflight[i].pc = "check"
    /\ LET r == TransferRegistered(Machine, inflight[i].actor, inflight[i].target,
                                    ParseInt(Split(inflight[i].in.object, " ")[2]))
       IN /\ state' = r.m.state
          /\ store' = r.m.store
          /\ inflight' = IF r.go THEN SetTask(inflight, i, [inflight[i] EXCEPT !.pc = "ops"])
                          ELSE DropTask(inflight, i)
          /\ outcome' = r.reply
    /\ call' = inflight[i].in
    /\ lastOp' = "transfer_register"
    /\ UNCHANGED <<started, channels, commands>>

\* the two-operation batch of a transfer is applied and committed
TransferWrite ==
  \E i \in DOMAIN inflight :
    /\ inflight[i].op = "transfer" /\ inflight[i].pc = "ops"
    /\ LET r == TransferPatch(Machine,
                   TransferOps(inflight[i].actor, inflight[i].target,
                               ParseInt(Split(inflight[i].in.object, " ")[2])))
       IN /\ state' = r.m.state
          /\ store' = r.m.store
          /\ outcome' = r.reply
    /\ inflight' = DropTask(inflight, i)
    /\ call' = [message |-> inflight[i].in, actor |-> inflight[i].actor,
                target |-> inflight[i].target]
    /\ lastOp' = "transfer_ops"
    /\ UNCHANGED <<started, channels, commands>>

\* a message is observed: one in a monitored channel awaits the profile of
\* its actor
MessageBegin ==
  /\ started
  /\ commands < MaxTasks
  /\ \E msg \in AsyncMessages :
       /\ inflight' = IF \E j \in DOMAIN channels : channels[j] = msg.target
                       THEN Append(inflight, Task("message", "read", msg))
                       ELSE inflight
       /\ call' = msg
  /\ commands' = commands + 1
  /\ outcome' = Nothing
  /\ lastOp' = "message_begin"
  /\ UNCHANGED <<state, store, started, channels>>

\* the profile of the actor of a message is read
MessageRead ==
  \E i \in DOMAIN inflight :
    /\ inflight[i].op = "message" /\ inflight[i].pc = "read"
    /\ inflight' = SetTask(inflight, i,
         [inflight[i] EXCEPT !.pc = "penalize",
            !.got = GetProfile(Machine, inflight[i].in.actor)])
    /\ call' = inflight[i].in
    /\ outcome' = Nothing
    /\ lastOp' = "message_read"
    /\ UNCHANGED <<state, store, started, channels, commands>>

\* the actor of a message is penalized
MessagePenalize ==
  \E i \in DOMAIN inflight :
    /\ inflight[i].op = "message" /\ inflight[i].pc = "penalize"
    /\ LET r == HandleMessageOf(Machine, inflight[i].got)
       IN /\ state' = r.m.state
          /\ store' = r.m.store
          /\ outcome' = [threw |-> r.threw, announced |-> AnnounceAll(channels, r.texts)]
    /\ inflight' = DropTask(inflight, i)
    /\ call' = [message |-> inflight[i].in, read |-> inflight[i].got.profile]
    /\ lastOp' = "message_penalize"
    /\ UNCHANGED <<started, channels, commands>>

NextAsync ==
  \/ Start \/ HandleServiceReady
  \/ TimerFires \/ TickFetch \/ TickRead \/ TickReward \/ TickEmit
  \/ TransferBegin \/ TransferRead \/ TransferRegister \/ TransferWrite
  \/ MessageBegin \/ MessageRead \/ MessagePenalize

SpecAsync == Init /\ [][NextAsync]_vars

Next == Start \/ HandlePatch \/ Transfer

Spec == Init /\ [][Next]_vars

NextTick == Start \/ HandleServiceReady \/ HandlePatch \/ Tick

SpecTick == Init /\ [][NextTick]_vars

NextRegister == Start \/ HandlePatch \/ RegisterCall

SpecRegister == Init /\ [][NextRegister]_vars

\* the durable store may hold content that does not parse
InitRestore ==
  /\ state = DefaultTree
  /\ store \in InitialStores \cup {CorruptStore}
  /\ started = FALSE
  /\ channels = <<>>
  /\ commands = 0
  /\ lastOp = "new"
  /\ call = Nothing
  /\ outcome = Nothing
  /\ inflight = <<>>

NextRestore == Start \/ HandlePatch \/ Restart \/ ReadProfile

SpecRestore == InitRestore /\ [][NextRestore]_vars

NextEvents ==
  \/ Start \/ HandleServiceReady \/ HandlePatch
  \/ JoinEvent \/ PartEvent \/ RegistryEvent \/ Message \/ Tick \/ Transfer

SpecEvents == Init /\ [][NextEvents]_vars

NextMessage == Start \/ HandleServiceReady \/ HandlePatch \/ Message

SpecMessage == Init /\ [][NextMessage]_vars

\* the durable store holds one partial profile of user a, or none
InitHydrate ==
  /\ state = DefaultTree
  /\ store \in HydrateStores
  /\ started = FALSE
  /\ channels = <<>>
  /\ commands = 0
  /\ lastOp = "new"
  /\ call = Nothing
  /\ outcome = Nothing
  /\ inflight = <<>>

NextHydrate == Start \/ ReadProfile \/ Rehydrate

SpecHydrate == InitHydrate /\ [][NextHydrate]_vars

(***************************************************************************)
(* Properties                                                              *)
(***************************************************************************)
\* the wealth a stored profile shows (0 when nothing is stored)
WealthAt(tree, key) ==
  IF key \in DOMAIN tree.players THEN OrDefault(tree.players[key].wealth, Num(0))
  ELSE Num(0)

TransferParts(msg) == Split(msg.object, " ")

WellFormed(msg) == msg.object # <<>> /\ msg.actor # <<>> /\ Len(TransferParts(msg)) = 3

\* the canonical paths of the actor and the target of a transfer message
ActorPath(msg) == GetProfilePath(msg.actor)
TargetPath(msg) == GetProfilePath(TransferTargetId(msg, TransferParts(msg)))

IsNumber(v) == v.k = "num"

\* the amount a transfer message asks for
AmountOf(msg) == ParseInt(TransferParts(msg)[2])

\* the wealth the durable store shows for the actor of a transfer message
ActorWealth(msg) == WealthAt(store.tree, ActorPath(msg))

WealthUnchanged(msg) ==
  /\ WealthAt(state', ActorPath(msg)) = WealthAt(state, ActorPath(msg))
  /\ WealthAt(state', TargetPath(msg)) = WealthAt(state, TargetPath(msg))
  /\ WealthAt(store'.tree, ActorPath(msg)) = WealthAt(store.tree, ActorPath(msg))
  /\ WealthAt(store'.tree, TargetPath(msg)) = WealthAt(store.tree, TargetPath(msg))

\* C1: every transfer of an integer amount that returns the success response
\* conserves the sum of the stored wealth of actor and target and leaves
\* neither negative
C1_WealthConserved ==
  [][ (lastOp' = "transfer" /\ outcome'.kind = "success" /\ IsNumber(AmountOf(call'))) =>
        LET a0 == WealthAt(state, ActorPath(call'))
            t0 == WealthAt(state, TargetPath(call'))
            a1 == WealthAt(state', ActorPath(call'))
            t1 == WealthAt(state', TargetPath(call'))
        IN /\ IsNumber(a1) /\ IsNumber(t1)
           /\ JsAdd(a1, t1) = JsAdd(a0, t0)
           /\ a1.n >= 0 /\ t1.n >= 0 ]_vars

\* C2: a transfer (here of an integer amount) that does not return the success
\* response leaves both wealth values unchanged, in memory and in the durable
\* store
C2_AllOrNothing ==
  [][ (lastOp' = "transfer" /\ WellFormed(call') /\ IsNumber(AmountOf(call'))
         /\ outcome'.kind # "success") =>
        WealthUnchanged(call') ]_vars

\* C3: a transfer (here between two different players that both have a
\* stored profile) whose amount does not parse as an integer is rejected and
\* changes no stored wealth, and no stored wealth becomes a non-number
C3_NonIntegerRejected ==
  [][ (lastOp' = "transfer" /\ WellFormed(call')
         /\ ActorPath(call') # TargetPath(call')
         /\ {ActorPath(call'), TargetPath(call')} \subseteq DOMAIN state.players
         /\ ~IsNumber(AmountOf(call'))) =>
        /\ outcome'.kind # "success"
        /\ WealthUnchanged(call')
        /\ \A x \in DOMAIN state'.players :
             state'.players[x].wealth.k \in {"num", "undef"} ]_vars

\* C4: a transfer whose actor and target are the same player path (here for
\* an amount the actor's stored wealth covers) returns the self-transfer
\* rejection and changes no stored wealth
C4_SelfTransferRejected ==
  [][ (lastOp' = "transfer" /\ WellFormed(call')
         /\ ActorPath(call') = TargetPath(call')
         /\ IsNumber(AmountOf(call')) /\ IsNumber(ActorWealth(call'))
         /\ 0 < AmountOf(call').n /\ AmountOf(call').n <= ActorWealth(call').n) =>
        /\ outcome'.kind = "self"
        /\ WealthUnchanged(call') ]_vars

\* C5: a transfer of a to another player from an actor with wealth w,
\* 0 < w < a, is rejected, changes neither balance and reports the shortfall
\* a - w as a positive number
C5_ShortfallReported ==
  [][ (lastOp' = "transfer" /\ WellFormed(call')
         /\ ActorPath(call') # TargetPath(call')
         /\ IsNumber(AmountOf(call')) /\ IsNumber(ActorWealth(call'))
         /\ 0 < ActorWealth(call').n
         /\ ActorWealth(call').n < AmountOf(call').n) =>
        /\ outcome'.kind = "insufficient"
        /\ WealthUnchanged(call')
        /\ outcome'.need = Num(AmountOf(call').n - ActorWealth(call').n) ]_vars

\* C6: after registerPlayer of a profile with an id, the store holds that
\* profile at the canonical path getProfile computes for the id, and the
\* value returned is the value stored there
C6_RegisteredAtCanonicalPath ==
  (lastOp = "register" /\ call.id # NoId) =>
     LET key == GetProfilePath(call.id)
     IN /\ store.present
        /\ key \in DOMAIN store.tree.players
        /\ store.tree.players[key] = SerializeProfile(call)
        /\ outcome = Found(store.tree.players[key])

\* every defaulted field of a profile is present
FullyDefaulted(p) ==
  /\ ~Falsy(p.health) /\ ~Falsy(p.stamina)
  /\ IsNumber(p.experience) /\ IsNumber(p.wealth)
  /\ p.presence # "undefined"
  /\ p.inventory.present /\ p.effects.present
  /\ p.equipment.present /\ p.equipment.weapon # "undefined"

\* C7: getProfile returns a fully defaulted profile, and hydrating a profile
\* that is already hydrated yields the same profile
C7_HydrationIdempotent ==
  /\ lastOp \in {"read", "rehydrate"} => (outcome.ok /\ FullyDefaulted(outcome.profile))
  /\ lastOp = "rehydrate" => outcome.profile = call.profile

\* the experience a stored profile shows (0 when nothing is stored)
ExperienceAt(tree, key) ==
  IF key \in DOMAIN tree.players THEN OrDefault(tree.players[key].experience, Num(0))
  ELSE Num(0)

\* the members a tick has to reward: online on the service, not the agent
RewardedMembers(in) ==
  { in.members[i] : i \in { j \in DOMAIN in.members :
        in.members[j] # AgentId /\ in.presence[in.members[j]] = "online" } }

\* C8: a tick without encounters adds the per-tick wealth and experience to
\* the stored profile of every online member of the monitored channel that is
\* not the agent, also when the agent is a member (here for members that all
\* have a stored profile)
C8_OnlineMembersRewarded ==
  [][ (lastOp' = "tick" /\ channels # <<>>
         /\ \A i \in DOMAIN call'.kinds : call'.kinds[i] = "none"
         /\ \A u \in RewardedMembers(call') : UserPath(u) \in DOMAIN state.players) =>
        \A u \in RewardedMembers(call') :
          /\ WealthAt(state', UserPath(u))
               = JsAdd(WealthAt(state, UserPath(u)), Num(PER_TICK_CAPITAL))
          /\ ExperienceAt(state', UserPath(u))
               = JsAdd(ExperienceAt(state, UserPath(u)), Num(PER_TICK_EXPERIENCE)) ]_vars

\* C9: a failure while one player is processed does not abort the tick: every
\* active player is processed and the tick-complete signal is emitted
C9_TickSurvivesFailure ==
  lastOp = "tick" => (outcome.processed = outcome.active /\ outcome.signals = 1)

\* C10: every tick emits exactly one tick-complete signal, and a tick with no
\* active player changes no player profile
C10_TickSignalsOnce ==
  [][ lastOp' = "tick" =>
        /\ outcome'.signals = 1
        /\ outcome'.active = <<>> => state'.players = state.players ]_vars

\* the level derived from the experience a stored profile shows
LevelAt(tree, key) == Level([experience |-> ExperienceAt(tree, key)])

\* the level-up messages a tick emitted that name the user
LevelAnnouncements(msgs, u) ==
  Cardinality({ i \in DOMAIN msgs :
                  /\ msgs[i].object.kind = "level"
                  /\ msgs[i].object.player \in {u, UserPath(u)} })

Monitored(msg) == \E i \in DOMAIN channels : channels[i] = msg.target

\* the stored profile names no other id than the path it is stored under
StoredUnderOwnId(tree, key) ==
  key \in DOMAIN tree.players /\ tree.players[key].id \in {NoId, key}

\* the cooldown a stored profile shows (0 when none is stored)
CooldownAt(tree, key) ==
  IF key \in DOMAIN tree.players THEN OrDefault(tree.players[key].cooldown, Num(0))
  ELSE Num(0)

\* the penalty announcements a message led to
PenaltyAnnouncements(msgs) ==
  Cardinality({ i \in DOMAIN msgs : msgs[i].object.kind = "penalty" })

\* C12: penalizing a stored player with wealth w sets the stored cooldown to
\* 1000 and the stored wealth to floor(w / 2), a non-negative integer (here
\* for a player stored with a cooldown and a wealth under its own id)
C12_PenaltyHalvesToInteger ==
  [][ (lastOp' = "message" /\ Monitored(call')
         /\ StoredUnderOwnId(state, ActorPath(call'))
         /\ state.players[ActorPath(call')].cooldown.k = "num"
         /\ state.players[ActorPath(call')].wealth.k = "num") =>
        /\ state'.players[ActorPath(call')].cooldown = Num(1000)
        /\ state'.players[ActorPath(call')].wealth
             = Num(ParseIntOfNumber(state.players[ActorPath(call')].wealth).n \div 2)
        /\ store'.tree.players[ActorPath(call')].wealth
             = state'.players[ActorPath(call')].wealth ]_vars

\* C13: the penalty announcement fires only if the player's stored cooldown
\* was below 100 before the message; a message sent while the stored cooldown
\* is at or above 100 applies the penalty and announces nothing
C13_AnnouncedOnlyBelowCooldown ==
  [][ (lastOp' = "message" /\ Monitored(call')
         /\ StoredUnderOwnId(state, ActorPath(call'))
         /\ ~JsLess(CooldownAt(state, ActorPath(call')), 100)) =>
        /\ state'.players[ActorPath(call')].cooldown = Num(1000)
        /\ PenaltyAnnouncements(outcome'.announced) = 0 ]_vars

\* every field the committed profile holds a value for is read back unchanged
ReadsBack(stored, profile) ==
  /\ \A f \in NumericFields : stored[f].k = "num" => profile[f] = stored[f]
  /\ stored.presence # "undefined" => profile.presence = stored.presence
  /\ stored.equipment.present => profile.equipment = stored.equipment
  /\ stored.inventory.present => profile.inventory = stored.inventory
  /\ stored.effects.present => profile.effects = stored.effects

\* C14: commit-then-restore round trip: a process that restores the committed
\* state at startup and then calls getProfile for a committed player obtains
\* the committed profile (its wealth and every other field committed)
C14_CommitRestoreRoundTrip ==
  [][ (lastOp = "start" /\ call.fault = "none" /\ outcome.ready /\ store.parses
         /\ lastOp' = "read"
         /\ GetProfilePath(call'.id) \in DOMAIN store.tree.players) =>
        /\ outcome'.ok
        /\ state.players = store.tree.players
        /\ ReadsBack(store.tree.players[GetProfilePath(call'.id)], outcome'.profile) ]_vars

\* the snapshot at "/" could not be read or does not parse
RestoreFailed(fault, st) == fault = "read" \/ (fault = "none" /\ st.present /\ ~st.parses)

\* C15: a startup whose restore fails (the read fails or the snapshot does
\* not parse) still subscribes the handlers, starts the tick timer and emits
\* ready, with the state the fresh default tree; a startup whose store does
\* not open or whose transport does not start never emits ready
C15_RestoreFailureNotFatal ==
  [][ /\ (lastOp' = "start" /\ RestoreFailed(call'.fault, store)) =>
           /\ outcome'.subscribed /\ outcome'.heartbeat /\ outcome'.ready
           /\ started'
           /\ state' = DefaultTree
           /\ \A c \in Collections : DOMAIN state'[c] = {}
      /\ (lastOp' = "start" /\ call'.fault \in {"open", "transport"}) =>
           ~outcome'.ready /\ ~started'
      /\ (lastOp = "start" /\ ~outcome.ready) => (lastOp' = "new" /\ ~started') ]_vars

\* a startup over a snapshot that does not parse has emitted ready
C15_Witness ==
  /\ lastOp = "start" /\ call.fault = "none"
  /\ store.present /\ ~store.parses
  /\ outcome.ready /\ started /\ state = DefaultTree

\* the ticks in flight
RunningTicks == { i \in DOMAIN inflight : inflight[i].op = "tick" }

\* C16: ticks never run concurrently: in every reachable state at most one
\* tick is running (a tick the timer fires while another is suspended is
\* suppressed or queued)
C16_OneTickAtATime == Cardinality(RunningTicks) <= 1

\* the wealth the store holds for the player is still the wealth the handler
\* read there
Fresh(profile) == WealthAt(store.tree, profile.id) = profile.wealth

\* C17: no update to a player is lost under interleaving: a handler (reward,
\* transfer, penalty) that writes a wealth computed from a profile it read
\* writes it while the stored wealth is still the one it read
C17_NoLostUpdate ==
  [][ /\ (lastOp' = "tick_reward" /\ call'.read.presence = "online" /\ ~outcome'.threw)
           => Fresh(call'.read)
      /\ (lastOp' = "transfer_ops" /\ outcome'.kind = "success")
           => (Fresh(call'.actor) /\ Fresh(call'.target))
      /\ (lastOp' = "message_penalize" /\ ~outcome'.threw)
           => Fresh(call'.read) ]_vars

\* the events of the service and the timer, inbound patches left aside
GameEvents == {"join", "part", "user", "channel", "service", "message", "tick", "transfer"}

\* C18: the stored experience of a player that has a profile is never
\* lowered, and never negative, by a join, part, user, channel, message, tick
\* or transfer event
C18_ExperienceMonotone ==
  [][ lastOp' \in GameEvents \ {"service"} =>
        \A key \in DOMAIN state.players :
          /\ IsNumber(ExperienceAt(state', key))
          /\ ~JsNegative(ExperienceAt(state', key))
          /\ ~JsNegative(JsSub(ExperienceAt(state', key), ExperienceAt(state, key))) ]_vars

RECURSIVE SumWealth(_, _)
\* the sum of the wealth the tree stores for the players of keys
SumWealth(tree, keys) ==
  IF keys = {} THEN Num(0)
  ELSE LET key == CHOOSE x \in keys : TRUE
       IN JsAdd(WealthAt(tree, key), SumWealth(tree, keys \ {key}))

TotalWealth(tree) == SumWealth(tree, DOMAIN tree.players)

\* C19: the sum of the stored wealth of all players does not decrease in a
\* step other than a penalty (here for the join steps)
C19_OnlyPenaltyReducesWealth ==
  [][ lastOp' = "join" =>
        /\ IsNumber(TotalWealth(state'))
        /\ ~JsNegative(JsSub(TotalWealth(state'), TotalWealth(state))) ]_vars

\* the entries under /players that the step created or changed
Touched(key) ==
  key \notin DOMAIN state.players \/ state'.players[key] # state.players[key]

\* C20: every entry under /players that an event created or changed is a
\* fully hydrated profile (here for the join and part events)
C20_PlayersHydrated ==
  [][ lastOp' \in {"join", "part"} =>
        \A key \in DOMAIN state'.players :
          Touched(key) => FullyDefaulted(state'.players[key]) ]_vars

\* the tick computed a round for the player stored at key
Processed(out, key) == \E i \in DOMAIN out.processed : out.processed[i] = key

\* C21: a tick that processes an active player whose stored cooldown is c > 0
\* leaves max(0, c - PER_TICK_CAPITAL) as the stored cooldown of that player,
\* and every cooldown stored after a tick lies in 0..1000
C21_CooldownRelaxed ==
  [][ lastOp' = "tick" =>
        /\ \A key \in DOMAIN state.players :
             (/\ Processed(outcome', key)
              /\ StoredUnderOwnId(state, key)
              /\ IsNumber(state.players[key].cooldown)
              /\ state.players[key].cooldown.n > 0) =>
               CooldownAt(state', key)
                 = Num(MaxOf(0, state.players[key].cooldown.n - PER_TICK_CAPITAL))
        /\ \A key \in DOMAIN state'.players :
             /\ IsNumber(CooldownAt(state', key))
             /\ ~JsNegative(CooldownAt(state', key))
             /\ JsLess(CooldownAt(state', key), 1000 + 1) ]_vars

\* C22: hydration only fills in missing fields: getProfile returns unchanged
\* every field that has a stored value in the prior profile (a health or
\* stamina stored as 0, a stored equipment.weapon and a stored cooldown
\* included)
C22_HydrationKeepsStored ==
  (lastOp = "read" /\ GetProfilePath(call.id) \in DOMAIN store.tree.players) =>
    /\ outcome.ok
    /\ ReadsBack(store.tree.players[GetProfilePath(call.id)], outcome.profile)

\* every field but the wealth that the profile before stores is the same in
\* the profile after
KeepsButWealth(before, after) == ReadsBack([before EXCEPT !.wealth = Undefined], after)

\* C23: a successful transfer between two players that both have a stored
\* profile changes nothing in the state tree but the wealth of the actor and
\* of the target: their other stored fields and every other profile are
\* unchanged
C23_TransferFrame ==
  [][ (/\ lastOp' = "transfer" /\ outcome'.kind = "success"
       /\ ActorPath(call') # TargetPath(call')
       /\ {ActorPath(call'), TargetPath(call')} \subseteq DOMAIN state.players) =>
        /\ DOMAIN state'.players = DOMAIN state.players
        /\ \A key \in {ActorPath(call'), TargetPath(call')} :
             KeepsButWealth(state.players[key], state'.players[key])
        /\ \A key \in DOMAIN state.players \ {ActorPath(call'), TargetPath(call')} :
             state'.players[key] = state.players[key]
        /\ \A c \in Collections \ {"players"} : state'[c] = state[c] ]_vars

====
